---- MODULE Spec2Model ----
(***************************************************************************)
(* The highlight aggregation engine of deni-highlights: the Express        *)
(* handler GET /api/videos/all with fetchWithTimeout, fetchPlayerVideos    *)
(* and fetchClutchVideosFromPlayByPlay (src/unnamed/part_000).             *)
(*                                                                         *)
(* One request is an async function: between two awaits its code runs as   *)
(* one atomic step.  An upstream call is issued by a program step and      *)
(* settled by the upstream (headers, body, error) or by the abort timer.   *)
(*                                                                         *)
(* The page that shows the highlights, App with EventList (src/src), is    *)
(* modelled beside it: the state of the two components and the updates     *)
(* React has queued for them.                                              *)
(***************************************************************************)
EXTENDS Integers, Sequences, FiniteSets, TLC

\* ------------------------------------------------------------------ bounds
MaxEventId == 2        \* event ids of playlist items range over 0..MaxEventId
MaxItems == 3          \* playlist items and actions the upstream sends to one request
MaxFullGameItems == 2  \* playlist items the upstream sends to the full-game calls
MaxActions == 2        \* actions in one play-by-play log
MaxPeriod == 6         \* periods of the actions given to the classifier
MaxClockLen == 5       \* characters of the clocks given to the parser
MaxMeta == 2           \* items of a playlist given to the zip
MaxAssets == 3         \* entries of a videoUrls array given to the zip
MaxSelects == 2        \* games the user selects after the first one
MaxShown == 3          \* events in a list returned to the page

\* ------------------------------------------------------- program constants
PORTLAND_TEAM_ID == 1610612757
DENI_PLAYER_ID == 1630166
WILDCARD_TEAM == 0
MAX_CLUTCH_PLAYERS == 8
VIDEO_TIMEOUT_MS == 15000
PBP_TIMEOUT_MS == 10000
contextMeasures == <<"FGA", "AST", "TOV", "REB", "BLK", "STL", "PF">>
clutchMeasures == <<"FGA", "AST", "TOV">>

Requests == {1, 2}

\* ------------------------------------------------------------ sequences
SeqsUpTo(S, n) == UNION {[1..k -> S] : k \in 0..n}

RECURSIVE Flatten(_)
\* deniResults.forEach(events => allEvents.push(...events))
Flatten(lists) ==
  IF lists = <<>> THEN <<>> ELSE Head(lists) \o Flatten(Tail(lists))

SeqToSet(s) == {s[i] : i \in 1..Len(s)}

Ids(events) == {events[i].eventId : i \in 1..Len(events)}

\* ---------------------------------------------------- fetchPlayerVideos
\* playlist.map(item => ({eventId: item.ei, description: item.dsc, contextMeasure}))
\* ei = 0 stands for an id that is 0 or absent: both are falsy in the code.
MapPlaylist(playlist, contextMeasure) ==
  [i \in 1..Len(playlist) |->
     [eventId |-> playlist[i].ei,
      description |-> playlist[i].dsc,
      contextMeasure |-> contextMeasure]]

\* A value that may be absent (undefined): None, or Some(v).
None == <<>>
Some(v) == <<v>>

\* a || b for optional strings: a when a is truthy (present, not ""), else b
OrElse(a, b) == IF a # None /\ a # Some("") THEN a ELSE b

\* video?.field, for video = videoUrls[index], undefined past the end
FieldOf(videoUrls, index, field) ==
  IF index <= Len(videoUrls) THEN videoUrls[index][field] ELSE None

\* video.lurl with no ?. : the TypeError of an item without asset ends in
\* the catch of fetchPlayerVideos, which returns []
ZipPlaylistStrict(playlist, videoUrls, contextMeasure) ==
  IF Len(videoUrls) < Len(playlist) THEN <<>>
  ELSE [i \in 1..Len(playlist) |->
          [eventId |-> playlist[i].ei,
           description |-> playlist[i].dsc,
           contextMeasure |-> contextMeasure,
           videoUrl |-> OrElse(OrElse(videoUrls[i].lurl, videoUrls[i].murl),
                               videoUrls[i].surl),
           thumbnailUrl |-> videoUrls[i].lth,
           videoDuration |-> videoUrls[i].ldur]]

\* playlist.map((item, index) => { const video = videoUrls[index]; ... })
\* with the video fields that MapPlaylist leaves out
ZipPlaylist(playlist, videoUrls, contextMeasure) ==
  [i \in 1..Len(playlist) |->
     [eventId |-> playlist[i].ei,
      description |-> playlist[i].dsc,
      contextMeasure |-> contextMeasure,
      videoUrl |-> OrElse(OrElse(FieldOf(videoUrls, i, "lurl"),
                                 FieldOf(videoUrls, i, "murl")),
                          FieldOf(videoUrls, i, "surl")),
      thumbnailUrl |-> FieldOf(videoUrls, i, "lth"),
      videoDuration |-> FieldOf(videoUrls, i, "ldur")]]

\* data = [playlist, meta, videoUrls]: meta is "none" without
\* resultSets.Meta, "bare" for a Meta without videoUrls, "urls" otherwise.
\* const videoUrls = data.resultSets?.Meta?.videoUrls || []
PlayerVideosOf(data, contextMeasure) ==
  LET videoUrls == IF data.meta = "urls" THEN data.videoUrls ELSE <<>>
  IN  ZipPlaylist(data.playlist, videoUrls, contextMeasure)

\* parseVideoDetails of src/api/nba.ts: the same zip in the client;
\* const { videoUrls } = response.resultSets?.Meta || { videoUrls: [] };
\* if (!videoUrls || !playlist) return [];
parseVideoDetails(response, contextMeasure) ==
  IF response.meta = "bare" THEN <<>>
  ELSE LET videoUrls == IF response.meta = "urls" THEN response.videoUrls ELSE <<>>
           events == ZipPlaylist(response.playlist, videoUrls, contextMeasure)
       IN  [i \in 1..Len(events) |->
              [eventId |-> events[i].eventId,
               clock |-> "", locX |-> 0, locY |-> 0,
               description |-> events[i].description,
               contextMeasure |-> events[i].contextMeasure,
               videoUrl |-> events[i].videoUrl,
               thumbnailUrl |-> events[i].thumbnailUrl,
               videoDuration |-> events[i].videoDuration]]

\* ------------------------------------------------------- dedup and sort
RECURSIVE EventMapLastWins(_, _)
\* eventMap.set(event.eventId, event) without the has() test: a later event
\* takes the place of the earlier one of its id
EventMapLastWins(events, eventMap) ==
  IF events = <<>> THEN eventMap
  ELSE LET event == Head(events)
       IN  EventMapLastWins(
             Tail(events),
             IF event.eventId = 0 THEN eventMap
             ELSE IF event.eventId \in Ids(eventMap)
               THEN [k \in 1..Len(eventMap) |->
                       IF eventMap[k].eventId = event.eventId
                         THEN event ELSE eventMap[k]]
               ELSE Append(eventMap, event))

RECURSIVE EventMapKeepFalsy(_, _)
\* the test !eventMap.has(event.eventId) alone: an event with a falsy id
\* enters the map like any other
EventMapKeepFalsy(events, eventMap) ==
  IF events = <<>> THEN eventMap
  ELSE LET event == Head(events)
       IN  EventMapKeepFalsy(
             Tail(events),
             IF event.eventId \notin Ids(eventMap)
               THEN Append(eventMap, event)
               ELSE eventMap)

RECURSIVE EventMapFrom(_, _)
\* eventMap: a Map keeps insertion order; an event enters when its id is
\* truthy and the map does not have the id yet.
EventMapFrom(events, eventMap) ==
  IF events = <<>> THEN eventMap
  ELSE LET event == Head(events)
       IN  EventMapFrom(
             Tail(events),
             IF event.eventId # 0 /\ event.eventId \notin Ids(eventMap)
               THEN Append(eventMap, event)
               ELSE eventMap)

EventMapOf(events) == EventMapFrom(events, <<>>)

RECURSIVE InsertSorted(_, _)
InsertSorted(event, sorted) ==
  IF sorted = <<>> THEN <<event>>
  ELSE IF event.eventId - Head(sorted).eventId < 0
         THEN <<event>> \o sorted
         ELSE <<Head(sorted)>> \o InsertSorted(event, Tail(sorted))

RECURSIVE SortFrom(_, _)
SortFrom(events, sorted) ==
  IF events = <<>> THEN sorted
  ELSE SortFrom(Tail(events), InsertSorted(Head(events), sorted))

\* the sort left out
SortSkipped(events) == events

\* dedupedEvents.sort((a, b) => a.eventId - b.eventId), a stable sort
SortByEventId(events) == SortFrom(events, <<>>)

\* ------------------------------------------------- play-by-play analysis
\* A clock is the sequence of its characters: "PT05M00.00S" is
\* <<"P","T","0","5","M","0","0",".","0","0","S">>; an absent clock is <<>>
\* (action.clock || '').
DigitChars == <<"0", "1", "2", "3", "4", "5", "6", "7", "8", "9">>

IsDigit(c) == \E d \in 1..Len(DigitChars) : DigitChars[d] = c

DigitValue(c) == (CHOOSE d \in 1..Len(DigitChars) : DigitChars[d] = c) - 1

RECURSIVE DigitsEnd(_, _)
\* first index >= i of clock that holds no digit (Len(clock) + 1 if none)
DigitsEnd(clock, i) ==
  IF i > Len(clock) \/ ~IsDigit(clock[i]) THEN i ELSE DigitsEnd(clock, i + 1)

\* /PT(\d)M/, one digit only, matches at index i
MatchesAtOneDigit(clock, i) ==
  /\ i + 3 <= Len(clock)
  /\ clock[i] = "P"
  /\ clock[i + 1] = "T"
  /\ IsDigit(clock[i + 2])
  /\ clock[i + 3] = "M"

\* /PT(\d+)M/ matches at index i
MatchesAt(clock, i) ==
  /\ i + 3 <= Len(clock)
  /\ clock[i] = "P"
  /\ clock[i + 1] = "T"
  /\ LET j == DigitsEnd(clock, i + 2)
     IN  j > i + 2 /\ j <= Len(clock) /\ clock[j] = "M"

\* clock.match(/PT(\d+)M/): the capture group of the leftmost match, or
\* <<>> for null
ClockMatch(clock) ==
  LET starts == {i \in 1..Len(clock) : MatchesAt(clock, i)}
  IN  IF starts = {} THEN <<>>
      ELSE LET i == CHOOSE k \in starts : \A l \in starts : k <= l
           IN  SubSeq(clock, i + 2, DigitsEnd(clock, i + 2) - 1)

RECURSIVE ParseIntFrom(_, _)
ParseIntFrom(digits, acc) ==
  IF digits = <<>> THEN acc
  ELSE ParseIntFrom(Tail(digits), 10 * acc + DigitValue(Head(digits)))

\* const minutes = clockMatch ? parseInt(clockMatch[1]) : 0
ClockMinutes(clock) ==
  LET clockMatch == ClockMatch(clock)
  IN  IF clockMatch # <<>> THEN ParseIntFrom(clockMatch, 0) ELSE 0

\* minutes < 5 in place of minutes <= 5
IsClutchActionExclusive(action) ==
  LET period == action.period
      minutes == ClockMinutes(action.clock)
  IN  IF period >= 5 THEN TRUE
      ELSE IF period = 4 /\ minutes < 5 THEN TRUE
      ELSE FALSE

\* the filter callback of clutchActions
IsClutchAction(action) ==
  LET period == action.period
      minutes == ClockMinutes(action.clock)
  IN  IF period >= 5 THEN TRUE
      ELSE IF period = 4 /\ minutes <= 5 THEN TRUE
      ELSE FALSE

ClutchActions(allActions) == SelectSeq(allActions, IsClutchAction)

\* clutchEventIds: the truthy actionNumbers of the clutch actions
ClutchEventIds(allActions) ==
  LET clutchActions == ClutchActions(allActions)
  IN  {clutchActions[i].actionNumber : i \in
         {k \in 1..Len(clutchActions) : clutchActions[k].actionNumber # 0}}

RECURSIVE PlayerIdsFromAnyone(_, _)
\* personId compared with the string DENI_PLAYER_ID, which no number equals
PlayerIdsFromAnyone(clutchActions, playerIds) ==
  IF clutchActions = <<>> THEN playerIds
  ELSE LET action == Head(clutchActions)
       IN  PlayerIdsFromAnyone(
             Tail(clutchActions),
             IF /\ action.personId # 0
                /\ action.personId \notin SeqToSet(playerIds)
               THEN Append(playerIds, action.personId)
               ELSE playerIds)

RECURSIVE PlayerIdsFrom(_, _)
\* playerIds: a Set keeps insertion order; personId 0 stands for 0 or absent
PlayerIdsFrom(clutchActions, playerIds) ==
  IF clutchActions = <<>> THEN playerIds
  ELSE LET action == Head(clutchActions)
       IN  PlayerIdsFrom(
             Tail(clutchActions),
             IF /\ action.personId # 0
                /\ action.personId # DENI_PLAYER_ID
                /\ action.personId \notin SeqToSet(playerIds)
               THEN Append(playerIds, action.personId)
               ELSE playerIds)

\* Array.from(playerIds).slice(-8): the last eight
PlayerArrayLastEight(allActions) ==
  LET playerIds == PlayerIdsFrom(ClutchActions(allActions), <<>>)
  IN  SubSeq(playerIds,
             IF Len(playerIds) < MAX_CLUTCH_PLAYERS
               THEN 1 ELSE Len(playerIds) - MAX_CLUTCH_PLAYERS + 1,
             Len(playerIds))

\* Array.from(playerIds) without the slice
PlayerArrayUncapped(allActions) ==
  PlayerIdsFrom(ClutchActions(allActions), <<>>)

\* Array.from(playerIds).slice(0, 8)
PlayerArray(allActions) ==
  LET playerIds == PlayerIdsFrom(ClutchActions(allActions), <<>>)
  IN  SubSeq(playerIds, 1,
             IF Len(playerIds) < MAX_CLUTCH_PLAYERS
               THEN Len(playerIds) ELSE MAX_CLUTCH_PLAYERS)

\* the clutchEventIds.has() test left out
KeepEvery(events, clutchEventIds) == events

\* events.forEach(event => { if (clutchEventIds.has(event.eventId)) ... })
KeepClutch(events, clutchEventIds) ==
  SelectSeq(events, LAMBDA event : event.eventId \in clutchEventIds)

\* ------------------------------------------------------------- upstream
\* What the upstream may answer.  Under "any" every answer within the
\* bounds is possible, failures included; under "mock" the upstream is the
\* fixture of the end-to-end scenario and always answers.
UpstreamModes == {"any", "mock"}

GameIds == {"", "0022400123"}          \* "" is a request without gameId

OtherPlayers == {99, 7}

Clock0500 == <<"P", "T", "0", "5", "M", "0", "0", ".", "0", "0", "S">>
Clock0600 == <<"P", "T", "0", "6", "M", "0", "0", ".", "0", "0", "S">>
NoClock == <<>>

Moments ==
  { [period |-> 4, clock |-> Clock0500],
    [period |-> 4, clock |-> Clock0600],
    [period |-> 5, clock |-> NoClock] }

\* the part of an action the upstream chooses freely; the log numbers its
\* actions in order, numbered = FALSE is an action without actionNumber
ActionShapes ==
  [period : {4, 5}, clock : {Clock0500, Clock0600, NoClock},
   personId : OtherPlayers \cup {DENI_PLAYER_ID}, numbered : BOOLEAN]

ActionChoices ==
  {a \in ActionShapes : [period |-> a.period, clock |-> a.clock] \in Moments}

NumberActions(shapes) ==
  [i \in 1..Len(shapes) |->
     [period |-> shapes[i].period,
      clock |-> shapes[i].clock,
      personId |-> shapes[i].personId,
      actionNumber |-> IF shapes[i].numbered THEN i ELSE 0]]

MockLog ==
  << [period |-> 2, clock |-> Clock0500, personId |-> DENI_PLAYER_ID, actionNumber |-> 10],
     [period |-> 4, clock |-> Clock0500, personId |-> DENI_PLAYER_ID, actionNumber |-> 20],
     [period |-> 4, clock |-> Clock0600, personId |-> 99, actionNumber |-> 50],
     [period |-> 5, clock |-> Clock0500, personId |-> 99, actionNumber |-> 40] >>

Item(ei, playerId) == [ei |-> ei, dsc |-> playerId]

MockPlaylist(contextMeasure, playerId, teamId) ==
  IF playerId = DENI_PLAYER_ID /\ teamId = PORTLAND_TEAM_ID
    THEN CASE contextMeasure = "FGA" -> <<Item(10, playerId)>>
           [] contextMeasure = "AST" -> <<Item(30, playerId)>>
           [] contextMeasure = "TOV" -> <<Item(20, playerId)>>
           [] OTHER -> <<>>
  ELSE IF playerId = 99 /\ teamId = WILDCARD_TEAM /\ contextMeasure = "FGA"
    THEN <<Item(20, playerId), Item(40, playerId), Item(50, playerId)>>
  ELSE <<>>

\* ---------------------------------------------------------------- state
VARIABLES
  upstream,   \* the upstream's mode, fixed at start
  req,        \* per request: the handler's locals and its pending fetch
  feed,       \* the scripted upstream: per game, its answer to every call
  eval,       \* one application of a pure function: arguments and result
  ui          \* the page in the browser: the state of App and of EventList

vars == <<upstream, req, feed, eval, ui>>

NoFeed == <<>>
NoEval == [fn |-> "none"]
NoUi == [page |-> "none"]

\* A request before it is received.  The fields:
\*   pc               where the handler is suspended
\*   gameId           req.query.gameId
\*   status, output   the HTTP status sent (0: none yet) and the events sent
\*   measureIdx       position of the running for..of loop over measures
\*   deniResults, allEvents, clutchEventIds, playerArray, playerResults,
\*   allClutchEvents  the locals of these names
\*   playerIdx        position of the for..of loop over playerArray
\*   net              the pending upstream fetch: "idle", "headers", "body"
\*   timer            fetchWithTimeout's abort timer is armed
\*   inflight         upstream fetches issued and not settled
\*   clutchReturned   the ids of the events the fan-out calls have returned
\*   lastOutcome      how the latest upstream call ended: "ok", "failed"
\*   fullGameOk       some full-game call has delivered its payload
\*   calls            upstream calls issued so far
\*   itemsLeft        items the upstream may still send to the request
NewRequest ==
  [pc |-> "idle", gameId |-> "", status |-> 0, output |-> <<>>,
   measureIdx |-> 0, deniResults |-> <<>>, allEvents |-> <<>>,
   net |-> "idle", timer |-> FALSE, inflight |-> 0,
   clutchEventIds |-> {}, playerArray |-> <<>>, playerIdx |-> 0,
   playerResults |-> <<>>, allClutchEvents |-> <<>>, clutchReturned |-> {},
   lastOutcome |-> "none", fullGameOk |-> FALSE, calls |-> 0,
   itemsLeft |-> MaxItems]

Init ==
  /\ upstream \in UpstreamModes
  /\ req = [r \in Requests |-> NewRequest]
  /\ feed = NoFeed
  /\ eval = NoEval
  /\ ui = NoUi

\* ------------------------------------------------------ results of calls
Returned(value) == [threw |-> "none", value |-> value]
Thrown(error) == [threw |-> error, value |-> <<>>]

\* fetchWithTimeout for each way fetch() can settle: the response, or the
\* error it throws
FetchWithTimeout(settled) ==
  CASE settled = "ok" -> [threw |-> "none", ok |-> TRUE]
    [] settled = "status" -> [threw |-> "none", ok |-> FALSE]
    [] settled = "abort" -> [threw |-> "Request timed out", ok |-> FALSE]
    [] OTHER -> [threw |-> "TypeError", ok |-> FALSE]

\* a catch that throws the error on
PlayerVideosRethrow(error) == Thrown(error)

\* catch (error) { ...; return []; } of fetchPlayerVideos
PlayerVideosCatch(error) == Returned(<<>>)

\* fetchWithTimeout awaited outside the try block
PlayerVideosNoBodyUncaught(settled) ==
  LET response == FetchWithTimeout(settled)
  IN  IF response.threw # "none" THEN Thrown(response.threw)
      ELSE Returned(<<>>)

\* fetchPlayerVideos up to the response: what it returns without reading a
\* body; the caller reads the body when the response is ok
PlayerVideosNoBody(settled) ==
  LET response == FetchWithTimeout(settled)
  IN  IF response.threw # "none" THEN PlayerVideosCatch(response.threw)
      ELSE Returned(<<>>)

\* response.json() awaited outside the try block
PlayerVideosBodyUncaught(body, contextMeasure) ==
  IF ~body.valid THEN Thrown("SyntaxError")
  ELSE Returned(MapPlaylist(body.playlist, contextMeasure))

\* fetchPlayerVideos from response.json() on
PlayerVideosBody(body, contextMeasure) ==
  IF ~body.valid THEN PlayerVideosCatch("SyntaxError")
  ELSE Returned(MapPlaylist(body.playlist, contextMeasure))

\* a catch that throws the error on
ClutchRethrow(error) == Thrown(error)

\* catch (error) { ...; return []; } of fetchClutchVideosFromPlayByPlay
ClutchCatch(error) == Returned(<<>>)

ClutchNoBody(settled) ==
  LET pbpResponse == FetchWithTimeout(settled)
  IN  IF pbpResponse.threw # "none" THEN ClutchCatch(pbpResponse.threw)
      ELSE Returned(<<>>)

\* --------------------------------------------------- steps of a request
\* fetch(url, {signal}) after setTimeout(() => controller.abort(), timeoutMs)
Issue(rq) ==
  [rq EXCEPT !.net = "headers", !.timer = TRUE, !.inflight = @ + 1,
             !.lastOutcome = "none", !.calls = @ + 1]

\* the pending fetch is over: clearTimeout(timeoutId) has run by now
Settle(rq, outcome) ==
  [rq EXCEPT !.net = "idle", !.timer = FALSE, !.inflight = @ - 1,
             !.lastOutcome = outcome,
             !.fullGameOk = @ \/ (rq.pc = "fg_wait" /\ outcome = "ok")]

Charge(rq, n) ==
  IF upstream = "any" THEN [rq EXCEPT !.itemsLeft = @ - n] ELSE rq

\* catch (error) { res.status(500).json(...) } of the handler
HandlerCatch(rq) == [rq EXCEPT !.status = 500, !.pc = "done"]

\* allEvents.push(...clutchEvents) left out
FinishWithoutClutch(rq, clutchEvents) ==
  [rq EXCEPT !.output = SortByEventId(EventMapOf(rq.allEvents)),
             !.status = 200, !.pc = "done"]

\* allEvents declared at module level: one array for all the requests
FinishSharedEvents(rq, clutchEvents) ==
  LET all == Flatten([r \in 1..Cardinality(Requests) |-> req[r].allEvents])
               \o clutchEvents
      dedupedEvents == SortByEventId(EventMapOf(all))
  IN  [rq EXCEPT !.allEvents = all, !.output = dedupedEvents,
                 !.status = 200, !.pc = "done"]

\* allEvents.push(...clutchEvents), dedup, sort, res.json({events})
Finish(rq, clutchEvents) ==
  LET all == rq.allEvents \o clutchEvents
      dedupedEvents == SortByEventId(EventMapOf(all))
  IN  [rq EXCEPT !.allEvents = all, !.output = dedupedEvents,
                 !.status = 200, !.pc = "done"]

\* const clutchEvents = await fetchClutchVideosFromPlayByPlay(gameId)
ClutchReturn(rq, ret) ==
  IF ret.threw # "none" THEN HandlerCatch(rq) ELSE Finish(rq, ret.value)

\* const events = await fetchPlayerVideos(...) in the handler's loop
FullGameNext(rq, ret) ==
  IF ret.threw # "none" THEN HandlerCatch(rq)
  ELSE [rq EXCEPT !.deniResults = Append(@, ret.value), !.pc = "fg_delay"]

\* the fan-out loop without its await of the 100 ms pause: the next call
\* of the player is issued as soon as this one has returned
ClutchNextNoDelay(rq, ret) ==
  IF ret.threw # "none" THEN ClutchReturn(rq, ClutchCatch(ret.threw))
  ELSE LET pushed == [rq EXCEPT !.playerResults = Append(@, ret.value),
                                !.clutchReturned = @ \cup Ids(ret.value)]
       IN  IF rq.measureIdx < Len(clutchMeasures)
             THEN Issue([pushed EXCEPT !.measureIdx = @ + 1])
             ELSE [pushed EXCEPT !.pc = "clutch_delay"]

\* const events = await fetchPlayerVideos(...) in the fan-out loop
ClutchNext(rq, ret) ==
  IF ret.threw # "none" THEN ClutchReturn(rq, ClutchCatch(ret.threw))
  ELSE [rq EXCEPT !.playerResults = Append(@, ret.value),
                  !.clutchReturned = @ \cup Ids(ret.value),
                  !.pc = "clutch_delay"]

VideoReturn(rq, ret) ==
  IF rq.pc = "fg_wait" THEN FullGameNext(rq, ret) ELSE ClutchNext(rq, ret)

\* the fan-out call made without its fourth argument: teamId takes its
\* default, the tracked team
CallArgsDefaultTeam(rq) ==
  IF rq.pc = "fg_wait"
    THEN [contextMeasure |-> contextMeasures[rq.measureIdx],
          playerId |-> DENI_PLAYER_ID,
          teamId |-> PORTLAND_TEAM_ID]
    ELSE [contextMeasure |-> clutchMeasures[rq.measureIdx],
          playerId |-> rq.playerArray[rq.playerIdx],
          teamId |-> PORTLAND_TEAM_ID]

\* the arguments of the fetchPlayerVideos call that is pending
CallArgs(rq) ==
  IF rq.pc = "fg_wait"
    THEN [contextMeasure |-> contextMeasures[rq.measureIdx],
          playerId |-> DENI_PLAYER_ID,
          teamId |-> PORTLAND_TEAM_ID]
    ELSE [contextMeasure |-> clutchMeasures[rq.measureIdx],
          playerId |-> rq.playerArray[rq.playerIdx],
          teamId |-> WILDCARD_TEAM]

\* the 400 sent without the return that should follow it
ReceiveRequestNoReturn(rq, g) ==
  IF g = ""
    THEN Issue([rq EXCEPT !.status = 400, !.measureIdx = 1, !.pc = "fg_wait"])
  ELSE Issue([rq EXCEPT !.gameId = g, !.measureIdx = 1, !.pc = "fg_wait"])

\* the full-game calls started together (Promise.all over contextMeasures)
ReceiveRequestAllAtOnce(rq, g) ==
  IF g = "" THEN [rq EXCEPT !.status = 400, !.pc = "done"]
  ELSE [Issue([rq EXCEPT !.gameId = g, !.measureIdx = 1, !.pc = "fg_wait"])
          EXCEPT !.inflight = Len(contextMeasures),
                 !.calls = Len(contextMeasures)]

\* the handler from its start to the first await
ReceiveRequest(rq, g) ==
  IF g = "" THEN [rq EXCEPT !.status = 400, !.pc = "done"]
  ELSE Issue([rq EXCEPT !.gameId = g, !.measureIdx = 1, !.pc = "fg_wait"])

\* the play-by-play fetch started as soon as the first category is in
AfterFullGameDelayEager(rq) ==
  Issue([rq EXCEPT !.allEvents = Flatten(rq.deniResults), !.pc = "pbp_wait"])

\* after await new Promise(r => setTimeout(r, 500)): the next category, or
\* the flattening of deniResults and the play-by-play fetch
AfterFullGameDelay(rq) ==
  IF rq.measureIdx < Len(contextMeasures)
    THEN Issue([rq EXCEPT !.measureIdx = @ + 1, !.pc = "fg_wait"])
    ELSE Issue([rq EXCEPT !.allEvents = Flatten(rq.deniResults),
                          !.pc = "pbp_wait"])

\* with nobody to query the response is sent at once, with no events
AfterPlayByPlayShortCut(rq, body) ==
  IF ~body.valid THEN ClutchReturn(Settle(rq, "failed"), ClutchCatch("SyntaxError"))
  ELSE LET allActions == body.actions
           found == [Charge(Settle(rq, "ok"), Len(allActions)) EXCEPT
                       !.clutchEventIds = ClutchEventIds(allActions),
                       !.playerArray = PlayerArray(allActions)]
       IN  IF found.playerArray = <<>>
             THEN [found EXCEPT !.status = 200, !.pc = "done"]
             ELSE Issue([found EXCEPT !.playerIdx = 1, !.measureIdx = 1,
                                      !.pc = "clutch_wait"])

\* fetchClutchVideosFromPlayByPlay from pbpResponse.json() to the first
\* fan-out call, or to its return when there is no player to query
AfterPlayByPlay(rq, body) ==
  IF ~body.valid THEN ClutchReturn(Settle(rq, "failed"), ClutchCatch("SyntaxError"))
  ELSE LET allActions == body.actions
           found == [Charge(Settle(rq, "ok"), Len(allActions)) EXCEPT
                       !.clutchEventIds = ClutchEventIds(allActions),
                       !.playerArray = PlayerArray(allActions)]
       IN  IF found.playerArray = <<>> THEN ClutchReturn(found, Returned(<<>>))
           ELSE Issue([found EXCEPT !.playerIdx = 1, !.measureIdx = 1,
                                    !.pc = "clutch_wait"])

\* after await new Promise(r => setTimeout(r, 100)): the next category, or
\* the filter of this player's results and the next player, or the return
AfterClutchDelay(rq) ==
  IF rq.measureIdx < Len(clutchMeasures)
    THEN Issue([rq EXCEPT !.measureIdx = @ + 1, !.pc = "clutch_wait"])
    ELSE LET kept == KeepClutch(Flatten(rq.playerResults), rq.clutchEventIds)
             filtered == [rq EXCEPT !.allClutchEvents = @ \o kept]
         IN  IF rq.playerIdx < Len(rq.playerArray)
               THEN Issue([filtered EXCEPT !.playerIdx = @ + 1,
                                           !.measureIdx = 1,
                                           !.playerResults = <<>>,
                                           !.pc = "clutch_wait"])
               ELSE ClutchReturn(filtered, Returned(filtered.allClutchEvents))

\* ------------------------------------------- what the upstream may send
Min(a, b) == IF a < b THEN a ELSE b

Playlists(rq) ==
  IF upstream = "any"
    THEN SeqsUpTo({Item(ei, CallArgs(rq).playerId) : ei \in 0..MaxEventId},
                  IF rq.pc = "fg_wait"
                    THEN Min(rq.itemsLeft,
                             MaxFullGameItems - Len(Flatten(rq.deniResults)))
                    ELSE rq.itemsLeft)
    ELSE {MockPlaylist(CallArgs(rq).contextMeasure, CallArgs(rq).playerId,
                       CallArgs(rq).teamId)}

VideoBodies(rq) ==
  {[valid |-> TRUE, playlist |-> p] : p \in Playlists(rq)}
    \cup (IF upstream = "any" THEN {[valid |-> FALSE, playlist |-> <<>>]} ELSE {})

Logs(rq) ==
  IF upstream = "any"
    THEN {NumberActions(shapes) : shapes \in
            SeqsUpTo(ActionChoices, Min(rq.itemsLeft, MaxActions))}
    ELSE {MockLog}

PbpBodies(rq) ==
  {[valid |-> TRUE, actions |-> log] : log \in Logs(rq)}
    \cup (IF upstream = "any" THEN {[valid |-> FALSE, actions |-> <<>>]} ELSE {})

VideoPending(rq) == rq.pc \in {"fg_wait", "clutch_wait"}

\* -------------------------------------------------------------- actions
Receive(r) ==
  /\ req[r].pc = "idle"
  /\ \E g \in GameIds : req' = [req EXCEPT ![r] = ReceiveRequest(@, g)]
  /\ UNCHANGED <<upstream, feed, eval, ui>>

\* the video call ends without a body: a non-ok status or a network error
VideoFails(r) ==
  /\ upstream = "any"
  /\ VideoPending(req[r]) /\ req[r].net = "headers"
  /\ \E settled \in {"status", "network"} :
       req' = [req EXCEPT ![r] =
                 VideoReturn(Settle(@, "failed"), PlayerVideosNoBody(settled))]
  /\ UNCHANGED <<upstream, feed, eval, ui>>

\* the abort timer fires before the response: controller.abort()
VideoTimeout(r) ==
  /\ upstream = "any"
  /\ VideoPending(req[r]) /\ req[r].net = "headers" /\ req[r].timer
  /\ req' = [req EXCEPT ![r] =
               VideoReturn(Settle(@, "failed"), PlayerVideosNoBody("abort"))]
  /\ UNCHANGED <<upstream, feed, eval, ui>>

\* an ok response arrives: fetchWithTimeout clears the timer and returns it;
\* fetchPlayerVideos awaits response.json()
VideoResponds(r) ==
  /\ VideoPending(req[r]) /\ req[r].net = "headers"
  /\ req' = [req EXCEPT ![r] = [@ EXCEPT !.net = "body", !.timer = FALSE]]
  /\ UNCHANGED <<upstream, feed, eval, ui>>

VideoBodyArrives(r) ==
  /\ VideoPending(req[r]) /\ req[r].net = "body"
  /\ \E body \in VideoBodies(req[r]) :
       req' = [req EXCEPT ![r] =
                 VideoReturn(
                   Charge(Settle(@, IF body.valid THEN "ok" ELSE "failed"),
                          Len(body.playlist)),
                   PlayerVideosBody(body, CallArgs(@).contextMeasure))]
  /\ UNCHANGED <<upstream, feed, eval, ui>>

FullGameDelay(r) ==
  /\ req[r].pc = "fg_delay"
  /\ req' = [req EXCEPT ![r] = AfterFullGameDelay(@)]
  /\ UNCHANGED <<upstream, feed, eval, ui>>

PbpFails(r) ==
  /\ upstream = "any"
  /\ req[r].pc = "pbp_wait" /\ req[r].net = "headers"
  /\ \E settled \in {"status", "network"} :
       req' = [req EXCEPT ![r] =
                 ClutchReturn(Settle(@, "failed"), ClutchNoBody(settled))]
  /\ UNCHANGED <<upstream, feed, eval, ui>>

PbpTimeout(r) ==
  /\ upstream = "any"
  /\ req[r].pc = "pbp_wait" /\ req[r].net = "headers" /\ req[r].timer
  /\ req' = [req EXCEPT ![r] =
               ClutchReturn(Settle(@, "failed"), ClutchNoBody("abort"))]
  /\ UNCHANGED <<upstream, feed, eval, ui>>

PbpResponds(r) ==
  /\ req[r].pc = "pbp_wait" /\ req[r].net = "headers"
  /\ req' = [req EXCEPT ![r] = [@ EXCEPT !.net = "body", !.timer = FALSE]]
  /\ UNCHANGED <<upstream, feed, eval, ui>>

PbpBodyArrives(r) ==
  /\ req[r].pc = "pbp_wait" /\ req[r].net = "body"
  /\ \E body \in PbpBodies(req[r]) :
       req' = [req EXCEPT ![r] = AfterPlayByPlay(@, body)]
  /\ UNCHANGED <<upstream, feed, eval, ui>>

ClutchDelay(r) ==
  /\ req[r].pc = "clutch_delay"
  /\ req' = [req EXCEPT ![r] = AfterClutchDelay(@)]
  /\ UNCHANGED <<upstream, feed, eval, ui>>

Step(r) ==
  \/ Receive(r)
  \/ VideoFails(r)
  \/ VideoTimeout(r)
  \/ VideoResponds(r)
  \/ VideoBodyArrives(r)
  \/ FullGameDelay(r)
  \/ PbpFails(r)
  \/ PbpTimeout(r)
  \/ PbpResponds(r)
  \/ PbpBodyArrives(r)
  \/ ClutchDelay(r)

\* one request on its own
Next == Step(1)

Spec == Init /\ [][Next]_vars

\* timers fire: the two delays elapse, and a fetch that has not been
\* answered is aborted; the upstream itself owes nothing
Fairness ==
  /\ WF_vars(FullGameDelay(1))
  /\ WF_vars(ClutchDelay(1))
  /\ WF_vars(VideoTimeout(1))
  /\ WF_vars(PbpTimeout(1))

\* the upstream that may fail, stall and answer with anything
FairInit == Init /\ upstream = "any"

FairSpec == FairInit /\ [][Next]_vars /\ Fairness

\* ------------------------------------------------- the scripted upstream
\* Two requests side by side against an upstream that answers by script:
\* feed gives, per game, the answer to the full-game FGA and AST calls, to
\* the play-by-play fetch and to the fan-out FGA calls; every other video
\* call gets an empty playlist.  kind is "ok", "garbled" (a body that does
\* not parse), "status", "network" or "stall" (no answer before the abort).
ScriptGames == {"0022400123", "0022400456"}

Ok(eis) == [kind |-> "ok", eis |-> eis]
Failing(kind) == [kind |-> kind, eis |-> <<>>]

LogOk(actions) == [kind |-> "ok", actions |-> actions]
LogFailing(kind) == [kind |-> kind, actions |-> <<>>]

\* one clutch action of the tracked player
DeniLog ==
  << [period |-> 5, clock |-> NoClock, personId |-> DENI_PLAYER_ID, actionNumber |-> 1] >>

\* clutch actions 1 (by 99), 2 (tracked player), 4 (by 7); 3 is not clutch
PairLog ==
  << [period |-> 4, clock |-> Clock0500, personId |-> 99, actionNumber |-> 1],
     [period |-> 5, clock |-> NoClock, personId |-> DENI_PLAYER_ID, actionNumber |-> 2],
     [period |-> 4, clock |-> Clock0600, personId |-> 7, actionNumber |-> 3],
     [period |-> 5, clock |-> NoClock, personId |-> 7, actionNumber |-> 4] >>

\* the actors of an overtime: ten players from 110 down to 101, two of them
\* acting twice, and the tracked player
CrowdActors ==
  <<110, 109, 110, DENI_PLAYER_ID, 108, 107, 106, 109, 105, 104, 103, 102, 101>>

CrowdLog ==
  [i \in 1..Len(CrowdActors) |->
     [period |-> 5, clock |-> NoClock, personId |-> CrowdActors[i],
      actionNumber |-> i]]

GameFeeds ==
  { [fga |-> Failing("stall"), ast |-> Failing("status"),
     pbp |-> LogFailing("network"), fan |-> Failing("stall")],
    [fga |-> Ok(<<2, 1>>), ast |-> Ok(<<1>>),
     pbp |-> LogOk(DeniLog), fan |-> Ok(<<>>)],
    [fga |-> Ok(<<4, 0>>), ast |-> Failing("garbled"),
     pbp |-> LogOk(PairLog), fan |-> Ok(<<1, 4, 3>>)],
    [fga |-> Failing("network"), ast |-> Ok(<<3>>),
     pbp |-> LogOk(PairLog), fan |-> Failing("status")],
    [fga |-> Ok(<<1>>), ast |-> Ok(<<1>>),
     pbp |-> LogFailing("garbled"), fan |-> Ok(<<>>)],
    [fga |-> Ok(<<11>>), ast |-> Ok(<<>>),
     pbp |-> LogOk(CrowdLog), fan |-> Ok(<<2>>)] }

ScriptInit ==
  /\ upstream = "script"
  /\ req = [r \in Requests |-> NewRequest]
  /\ feed \in [ScriptGames -> GameFeeds]
  /\ eval = NoEval
  /\ ui = NoUi

\* the scripted answer to the video call that rq has pending
VideoAnswer(rq) ==
  LET args == CallArgs(rq)
      game == feed[rq.gameId]
  IN  IF args.teamId = PORTLAND_TEAM_ID
        THEN CASE args.contextMeasure = "FGA" -> game.fga
               [] args.contextMeasure = "AST" -> game.ast
               [] OTHER -> Ok(<<>>)
        ELSE IF args.contextMeasure = "FGA" THEN game.fan ELSE Ok(<<>>)

\* its body: the items are of the game and the player that were asked for
VideoBody(rq) ==
  LET answer == VideoAnswer(rq)
  IN  [valid |-> answer.kind = "ok",
       playlist |-> [i \in 1..Len(answer.eis) |->
                       Item(answer.eis[i], <<rq.gameId, CallArgs(rq).playerId>>)]]

\* the timer left armed: clearTimeout(timeoutId) of the try branch missing
ResponseArrivesTimerKept(rq) == [rq EXCEPT !.net = "body"]

\* fetch() resolves: clearTimeout(timeoutId); return response
ResponseArrives(rq) == [rq EXCEPT !.net = "body", !.timer = FALSE]

\* fetchPlayerVideos when its fetch settles
AfterVideoAnswer(rq) ==
  LET kind == VideoAnswer(rq).kind
  IN  IF kind \in {"status", "network"}
        THEN VideoReturn(Settle(rq, "failed"), PlayerVideosNoBody(kind))
      ELSE IF kind = "stall"
        THEN VideoReturn(Settle(rq, "failed"), PlayerVideosNoBody("abort"))
      ELSE ResponseArrives(rq)

\* fetchPlayerVideos when response.json() settles; a signal aborted during
\* the read rejects it
AfterVideoBody(rq, aborted) ==
  IF aborted
    THEN VideoReturn(Settle(rq, "failed"), PlayerVideosCatch("AbortError"))
    ELSE LET body == VideoBody(rq)
         IN  VideoReturn(Settle(rq, IF body.valid THEN "ok" ELSE "failed"),
                         PlayerVideosBody(body, CallArgs(rq).contextMeasure))

\* fetchClutchVideosFromPlayByPlay when its fetch settles
AfterPbpAnswer(rq) ==
  LET kind == feed[rq.gameId].pbp.kind
  IN  IF kind \in {"status", "network"}
        THEN ClutchReturn(Settle(rq, "failed"), ClutchNoBody(kind))
      ELSE IF kind = "stall"
        THEN ClutchReturn(Settle(rq, "failed"), ClutchNoBody("abort"))
      ELSE ResponseArrives(rq)

AfterPbpBody(rq) ==
  LET answer == feed[rq.gameId].pbp
  IN  AfterPlayByPlay(rq, [valid |-> answer.kind = "ok",
                           actions |-> answer.actions])

Arrive(r) ==
  /\ req[r].pc = "idle"
  /\ \E g \in ScriptGames : req' = [req EXCEPT ![r] = ReceiveRequest(@, g)]
  /\ UNCHANGED <<upstream, feed, eval, ui>>

ScriptedVideo(r) ==
  /\ VideoPending(req[r]) /\ req[r].net = "headers"
  /\ req' = [req EXCEPT ![r] = AfterVideoAnswer(@)]
  /\ UNCHANGED <<upstream, feed, eval, ui>>

ScriptedVideoBody(r) ==
  /\ VideoPending(req[r]) /\ req[r].net = "body"
  /\ \E aborted \in (IF req[r].timer THEN BOOLEAN ELSE {FALSE}) :
       req' = [req EXCEPT ![r] = AfterVideoBody(@, aborted)]
  /\ UNCHANGED <<upstream, feed, eval, ui>>

ScriptedPbp(r) ==
  /\ req[r].pc = "pbp_wait" /\ req[r].net = "headers"
  /\ req' = [req EXCEPT ![r] = AfterPbpAnswer(@)]
  /\ UNCHANGED <<upstream, feed, eval, ui>>

ScriptedPbpBody(r) ==
  /\ req[r].pc = "pbp_wait" /\ req[r].net = "body"
  /\ req' = [req EXCEPT ![r] = AfterPbpBody(@)]
  /\ UNCHANGED <<upstream, feed, eval, ui>>

ScriptStep(r) ==
  \/ Arrive(r)
  \/ ScriptedVideo(r)
  \/ ScriptedVideoBody(r)
  \/ FullGameDelay(r)
  \/ ScriptedPbp(r)
  \/ ScriptedPbpBody(r)
  \/ ClutchDelay(r)

\* the steps of the two requests interleave in any order
ScriptNext == \E r \in Requests : ScriptStep(r)

ScriptSpec == ScriptInit /\ [][ScriptNext]_vars

\* ------------------------------------------- pure functions on their own
\* The functions of the play-by-play analysis applied to arguments drawn
\* from bounded sets: eval holds the function, its argument and, once the
\* function has run, its result.
ClockChars == {"P", "T", "M", "S", "0", "5"}

\* "PT{mm}M00.00S" for a number of minutes below 100
ClockOf(minutes) ==
  <<"P", "T", DigitChars[(minutes \div 10) + 1], DigitChars[(minutes % 10) + 1],
    "M", "0", "0", ".", "0", "0", "S">>

ClassifierArgs ==
  {[period |-> p, minutes |-> m, clock |-> ClockOf(m)] :
     p \in 0..MaxPeriod, m \in 0..12}
    \cup {[period |-> p, minutes |-> 0, clock |-> NoClock] : p \in 0..MaxPeriod}

ParserArgs == SeqsUpTo(ClockChars, MaxClockLen) \cup {Clock0500, Clock0600}

\* entries of videoUrls: with every url, with the small one only, with none
Assets ==
  {[lurl |-> Some("large"), murl |-> Some("medium"), surl |-> Some("small"),
    lth |-> Some("thumb"), ldur |-> Some(9000)],
   [lurl |-> Some(""), murl |-> None, surl |-> Some("small"),
    lth |-> Some("thumb"), ldur |-> Some(4000)],
   [lurl |-> None, murl |-> Some("medium"), surl |-> None,
    lth |-> None, ldur |-> Some(7000)],
   [lurl |-> None, murl |-> None, surl |-> None, lth |-> None, ldur |-> None]}

ZipArgs ==
  {[playlist |-> p, meta |-> "urls", videoUrls |-> v] :
     p \in SeqsUpTo({Item(ei, "play") : ei \in 1..2}, MaxMeta),
     v \in SeqsUpTo(Assets, MaxAssets)}
    \cup {[playlist |-> p, meta |-> m, videoUrls |-> <<>>] :
            p \in SeqsUpTo({Item(ei, "play") : ei \in 1..2}, MaxMeta),
            m \in {"none", "bare"}}

\* the calendar dates the process may start on: now.getFullYear() and
\* now.getMonth(), which counts the months from 0
Years == {1999, 2000, 2009, 2024, 2025, 2026, 2099}
MonthIndexes == 0..11
Dates == {[year |-> y, monthIndex |-> m] : y \in Years, m \in MonthIndexes}

RECURSIVE NumberToString(_)
\* Number.prototype.toString() of a natural number
NumberToString(n) ==
  IF n < 10 THEN <<DigitChars[n + 1]>>
  ELSE NumberToString(n \div 10) \o <<DigitChars[(n % 10) + 1]>>

\* String.prototype.slice(-k)
SliceLast(s, k) == IF Len(s) <= k THEN s ELSE SubSeq(s, Len(s) - k + 1, Len(s))

\* now.getMonth() taken for the month, without the + 1
getCurrentSeasonMonthIndex(now) ==
  LET year == now.year
      month == now.monthIndex
  IN  IF month >= 10
        THEN NumberToString(year) \o <<"-">> \o SliceLast(NumberToString(year + 1), 2)
        ELSE NumberToString(year - 1) \o <<"-">> \o SliceLast(NumberToString(year), 2)

\* getCurrentSeason() when new Date() is now
getCurrentSeason(now) ==
  LET year == now.year
      month == now.monthIndex + 1
  IN  IF month >= 10
        THEN NumberToString(year) \o <<"-">> \o SliceLast(NumberToString(year + 1), 2)
        ELSE NumberToString(year - 1) \o <<"-">> \o SliceLast(NumberToString(year), 2)

\* the timeouts the callers of fetchWithTimeout pass
TimeoutsMs == {VIDEO_TIMEOUT_MS, PBP_TIMEOUT_MS}

\* what fetch() rejects with once controller.abort() has run
AbortError ==
  [name |-> "AbortError", message |-> <<"This operation was aborted">>]

\* what fetch() rejects with when the transport fails
TransportErrors ==
  {[name |-> "TypeError", message |-> <<"fetch failed">>],
   [name |-> "Error", message |-> <<"socket hang up">>]}

\* the ways the upstream treats one fetch: it responds, it stays silent, or
\* the transport fails with an error
FetchFates ==
  {[kind |-> k, error |-> None] : k \in {"response", "silent"}}
    \cup {[kind |-> "error", error |-> Some(e)] : e \in TransportErrors}

FetchArgs == {[fate |-> f, timeoutMs |-> t] : f \in FetchFates, t \in TimeoutsMs}

\* `Request timed out after ${timeoutMs}ms`
TimeoutMessage(timeoutMs) ==
  <<"Request timed out after ">> \o NumberToString(timeoutMs) \o <<"ms">>

\* a catch block that clears the timer and throws the error on as it is
FetchCatchPlain(error, timeoutMs) == [timer |-> FALSE, threw |-> Some(error)]

\* catch (error) { clearTimeout(timeoutId); ... } of fetchWithTimeout
FetchCatch(error, timeoutMs) ==
  [timer |-> FALSE,
   threw |-> Some(IF error.name = "AbortError"
                    THEN [name |-> "Error",
                          message |-> TimeoutMessage(timeoutMs)]
                    ELSE error)]

\* fetchWithTimeout(url, options, timeoutMs) from the arming of the timer to
\* its return or throw: against a silent upstream the timer fires and
\* controller.abort() makes fetch() reject with AbortError
FetchWithTimeoutRun(fate, timeoutMs) ==
  IF fate.kind = "response"
    THEN [timer |-> FALSE, aborted |-> FALSE, threw |-> None]
  ELSE IF fate.kind = "silent"
    THEN LET caught == FetchCatch(AbortError, timeoutMs)
         IN  [timer |-> caught.timer, aborted |-> TRUE, threw |-> caught.threw]
  ELSE LET caught == FetchCatch(fate.error[1], timeoutMs)
       IN  [timer |-> caught.timer, aborted |-> FALSE, threw |-> caught.threw]

\* "PT{mm}M{ss}.00S"
ClockAt(minutes, seconds) ==
  <<"P", "T", DigitChars[(minutes \div 10) + 1], DigitChars[(minutes % 10) + 1],
    "M", DigitChars[(seconds \div 10) + 1], DigitChars[(seconds % 10) + 1],
    ".", "0", "0", "S">>

\* the plays of a log: the period, the time left on the game clock and the
\* actor
Plays ==
  {[period |-> p, minutes |-> t[1], seconds |-> t[2], personId |-> a] :
     p \in {3, 4, 5},
     t \in {<<4, 30>>, <<5, 0>>, <<5, 30>>, <<6, 0>>},
     a \in {99, 7, DENI_PLAYER_ID}}

\* pbpData.game.actions for a sequence of plays, numbered from 1
ActionsOf(plays) ==
  [i \in 1..Len(plays) |->
     [period |-> plays[i].period,
      clock |-> ClockAt(plays[i].minutes, plays[i].seconds),
      personId |-> plays[i].personId,
      actionNumber |-> i]]

Evals ==
  {[fn |-> "isClutch", arg |-> a, done |-> FALSE, result |-> FALSE] :
     a \in ClassifierArgs}
    \cup {[fn |-> "minutes", arg |-> a, done |-> FALSE, result |-> 0] :
            a \in ParserArgs}
    \cup {[fn |-> f, arg |-> a, done |-> FALSE, result |-> <<>>] :
            f \in {"fetchPlayerVideos", "parseVideoDetails"}, a \in ZipArgs}
    \cup {[fn |-> "getCurrentSeason", arg |-> a, done |-> FALSE,
            result |-> <<>>] : a \in Dates}
    \cup {[fn |-> "fetchWithTimeout", arg |-> a, done |-> FALSE,
            result |-> <<>>] : a \in FetchArgs}
    \cup {[fn |-> "clutchContext", arg |-> a, done |-> FALSE,
            result |-> <<>>] : a \in SeqsUpTo(Plays, MaxActions)}

PureInit ==
  /\ upstream = "none"
  /\ req = [r \in Requests |-> NewRequest]
  /\ feed = NoFeed
  /\ eval \in Evals
  /\ ui = NoUi

\* the filter callback applied to one action
Classify ==
  /\ eval.fn = "isClutch" /\ ~eval.done
  /\ eval' = [eval EXCEPT
                !.result = IsClutchAction([period |-> eval.arg.period,
                                           clock |-> eval.arg.clock]),
                !.done = TRUE]
  /\ UNCHANGED <<upstream, req, feed, ui>>

\* the clock of one action parsed
ParseClock ==
  /\ eval.fn = "minutes" /\ ~eval.done
  /\ eval' = [eval EXCEPT !.result = ClockMinutes(eval.arg), !.done = TRUE]
  /\ UNCHANGED <<upstream, req, feed, ui>>

\* fetchPlayerVideos from the parsed body to its return
ZipServer ==
  /\ eval.fn = "fetchPlayerVideos" /\ ~eval.done
  /\ eval' = [eval EXCEPT !.result = PlayerVideosOf(eval.arg, "FGA"),
                          !.done = TRUE]
  /\ UNCHANGED <<upstream, req, feed, ui>>

ZipClient ==
  /\ eval.fn = "parseVideoDetails" /\ ~eval.done
  /\ eval' = [eval EXCEPT !.result = parseVideoDetails(eval.arg, "FGA"),
                          !.done = TRUE]
  /\ UNCHANGED <<upstream, req, feed, ui>>

\* const CURRENT_SEASON = getCurrentSeason()
ComputeSeason ==
  /\ eval.fn = "getCurrentSeason" /\ ~eval.done
  /\ eval' = [eval EXCEPT !.result = getCurrentSeason(eval.arg), !.done = TRUE]
  /\ UNCHANGED <<upstream, req, feed, ui>>

\* one call of fetchWithTimeout
FetchOnce ==
  /\ eval.fn = "fetchWithTimeout" /\ ~eval.done
  /\ eval' = [eval EXCEPT
                !.result = FetchWithTimeoutRun(eval.arg.fate, eval.arg.timeoutMs),
                !.done = TRUE]
  /\ UNCHANGED <<upstream, req, feed, ui>>

\* fetchClutchVideosFromPlayByPlay from allActions to playerArray
ClutchContext ==
  /\ eval.fn = "clutchContext" /\ ~eval.done
  /\ LET allActions == ActionsOf(eval.arg)
     IN  eval' = [eval EXCEPT
                    !.result = [clutchEventIds |-> ClutchEventIds(allActions),
                                playerArray |-> PlayerArray(allActions)],
                    !.done = TRUE]
  /\ UNCHANGED <<upstream, req, feed, ui>>

PureNext ==
  \/ Classify
  \/ ParseClock
  \/ ZipServer
  \/ ZipClient
  \/ ComputeSeason
  \/ FetchOnce
  \/ ClutchContext

PureSpec == PureInit /\ [][PureNext]_vars

\* --------------------------------------------------- the page: App, EventList
\* App holds selectedGameId, events and loading, and starts loadGameData for
\* every game selected; EventList holds currentIndex.  React queues the
\* updates of setCurrentIndex and applies them in order at the next render;
\* a handler reads currentIndex and events as of the last render.  A click
\* or a key press is rendered before the next event is handled; an update
\* made by a timer or by the video's ended event is rendered later.
\* setCurrentIndex(v) and setCurrentIndex((idx) => idx + 1)
SetTo(v) == [op |-> "set", v |-> v]
Increment == [op |-> "inc", v |-> 1]

RECURSIVE ApplyUpdates(_, _)
\* the state after the queued updates, applied in the order they were made
ApplyUpdates(queue, state) ==
  IF queue = <<>> THEN state
  ELSE ApplyUpdates(Tail(queue),
                    IF Head(queue).op = "set" THEN Head(queue).v
                    ELSE state + Head(queue).v)

\* The page when App has mounted and the games are being fetched.  The fields:
\*   page            "loadingGames", then "games" once a game is selected
\*                   and EventList is mounted
\*   selectedGameId, events, loading   the state of App of these names;
\*                   events is the game the list was returned for and its
\*                   length
\*   requests        per game, the calls of getAllVideoEvents in flight
\*   selects         games the user has selected so far
\*   currentIndex    the state of EventList, as of its last render
\*   queue           the updates of currentIndex not yet rendered
\*   timer           the timer of the reset effect is armed
\*   ended           the video shown has played to its end
\*   resetDue        events has changed and no render since has had
\*                   currentIndex 0
NewPage ==
  [page |-> "loadingGames", selectedGameId |-> "",
   events |-> [gameId |-> "", length |-> 0], loading |-> FALSE,
   requests |-> [g \in ScriptGames |-> 0], selects |-> 0,
   currentIndex |-> 0, queue |-> <<>>, timer |-> FALSE, ended |-> FALSE,
   resetDue |-> FALSE]

\* a render of EventList: the queued updates are applied; the effect on
\* [currentIndex, events] loads and plays the video when the index changes
Rendered(p) ==
  LET idx == ApplyUpdates(p.queue, p.currentIndex)
  IN  [p EXCEPT !.currentIndex = idx, !.queue = <<>>,
                !.ended = @ /\ idx = p.currentIndex,
                !.resetDue = @ /\ idx # 0]

\* EventList renders its container: not loading, and events is not empty
ContainerShown(p) == p.page = "games" /\ ~p.loading /\ p.events.length > 0

\* currentEvent?.videoUrl: the video and its buttons are rendered
VideoShown(p) ==
  ContainerShown(p) /\ p.currentIndex \in 0..(p.events.length - 1)

\* loadGameData(gameId) up to its await
LoadGameData(p, gameId) ==
  [p EXCEPT !.loading = TRUE, !.requests[gameId] = @ + 1]

\* loadGameData(gameId) after its await: setEvents(allEvents) and
\* setLoading(false); EventList renders with the new events and its reset
\* effect clears the timer it had set and sets a new one
AfterAllEvents(p, gameId, length) ==
  LET shown == Rendered([p EXCEPT !.requests[gameId] = @ - 1,
                                  !.events = [gameId |-> gameId,
                                              length |-> length],
                                  !.loading = FALSE])
  IN  [shown EXCEPT !.timer = TRUE, !.ended = FALSE,
                    !.resetDue = shown.currentIndex # 0]

handleVideoEnded(p) ==
  IF p.currentIndex < p.events.length - 1
    THEN [p EXCEPT !.ended = TRUE, !.queue = Append(@, Increment)]
  ELSE [p EXCEPT !.ended = TRUE]

handlePrev(p) ==
  IF p.currentIndex > 0
    THEN Rendered([p EXCEPT !.queue = Append(@, SetTo(p.currentIndex - 1))])
  ELSE p

handleNext(p) ==
  IF p.currentIndex < p.events.length - 1
    THEN Rendered([p EXCEPT !.queue = Append(@, SetTo(p.currentIndex + 1))])
  ELSE p

jumpToStart(p) == Rendered([p EXCEPT !.queue = Append(@, SetTo(0))])

jumpToEnd(p) ==
  Rendered([p EXCEPT !.queue = Append(@, SetTo(p.events.length - 1))])

UiInit ==
  /\ upstream = "none"
  /\ req = [r \in Requests |-> NewRequest]
  /\ feed = NoFeed
  /\ eval = NoEval
  /\ ui = NewPage

\* getPortlandGames() has returned: the first game is selected, EventList
\* mounts with no events and its reset effect sets the timer, and the effect
\* on selectedGameId calls loadGameData
GamesLoaded ==
  /\ ui.page = "loadingGames"
  /\ \E g \in ScriptGames :
       ui' = LoadGameData([ui EXCEPT !.page = "games", !.selectedGameId = g,
                                     !.timer = TRUE], g)
  /\ UNCHANGED <<upstream, req, feed, eval>>

\* the user clicks another game in GameSelector
SelectGame ==
  /\ ui.page = "games" /\ ui.selects < MaxSelects
  /\ \E g \in ScriptGames \ {ui.selectedGameId} :
       ui' = LoadGameData([ui EXCEPT !.selectedGameId = g,
                                     !.selects = @ + 1], g)
  /\ UNCHANGED <<upstream, req, feed, eval>>

\* a call of getAllVideoEvents returns: the events of the game, or [] when
\* the call has failed
EventsArrive ==
  /\ ui.page = "games"
  /\ \E g \in ScriptGames, n \in 0..MaxShown :
       /\ ui.requests[g] > 0
       /\ ui' = AfterAllEvents(ui, g, n)
  /\ UNCHANGED <<upstream, req, feed, eval>>

\* window.setTimeout(() => setCurrentIndex(0), 0) fires
ResetTimerFires ==
  /\ ui.page = "games" /\ ui.timer
  /\ ui' = [ui EXCEPT !.timer = FALSE, !.queue = Append(@, SetTo(0))]
  /\ UNCHANGED <<upstream, req, feed, eval>>

\* React renders the updates made outside a click or a key press
Render ==
  /\ ui.page = "games" /\ ui.queue # <<>>
  /\ ui' = Rendered(ui)
  /\ UNCHANGED <<upstream, req, feed, eval>>

\* the video plays to its end
VideoEnded ==
  /\ VideoShown(ui) /\ ~ui.ended
  /\ ui' = handleVideoEnded(ui)
  /\ UNCHANGED <<upstream, req, feed, eval>>

\* ArrowLeft, or a click on the previous button
Prev ==
  /\ ContainerShown(ui) /\ ui.currentIndex > 0
  /\ ui' = handlePrev(ui)
  /\ UNCHANGED <<upstream, req, feed, eval>>

\* ArrowRight, or a click on the next button
NextVideo ==
  /\ ContainerShown(ui) /\ ui.currentIndex < ui.events.length - 1
  /\ ui' = handleNext(ui)
  /\ UNCHANGED <<upstream, req, feed, eval>>

\* a click on the jump-start button, disabled at index 0
JumpToStart ==
  /\ VideoShown(ui) /\ ui.currentIndex # 0
  /\ ui' = jumpToStart(ui)
  /\ UNCHANGED <<upstream, req, feed, eval>>

\* a click on the jump-end button, disabled at the last index
JumpToEnd ==
  /\ VideoShown(ui) /\ ui.currentIndex # ui.events.length - 1
  /\ ui' = jumpToEnd(ui)
  /\ UNCHANGED <<upstream, req, feed, eval>>

UiNext ==
  \/ GamesLoaded
  \/ SelectGame
  \/ EventsArrive
  \/ ResetTimerFires
  \/ Render
  \/ VideoEnded
  \/ Prev
  \/ NextVideo
  \/ JumpToStart
  \/ JumpToEnd

UiSpec == UiInit /\ [][UiNext]_vars


\* ------------------------------------------------------------ properties
Served(rq) == rq.pc = "done" /\ rq.status = 200

Accepted(rq) == rq.pc = "done" /\ rq.gameId # ""

FullGameEvents(rq) == Flatten(rq.deniResults)

StrictlyAscending(events) ==
  \A i, j \in 1..Len(events) : i < j => events[i].eventId < events[j].eventId

CountId(events, id) == Cardinality({k \in 1..Len(events) : events[k].eventId = id})

FirstWithId(events, id) ==
  events[CHOOSE k \in 1..Len(events) :
           /\ events[k].eventId = id
           /\ \A l \in 1..(k - 1) : events[l].eventId # id]

\* out is events without the events of id 0, one event per id (the first
\* one of events), in ascending order of id
IsDedupSortOf(out, events) ==
  /\ StrictlyAscending(out)
  /\ Ids(out) = Ids(events) \ {0}
  /\ \A k \in 1..Len(out) : out[k] = FirstWithId(events, out[k].eventId)

\* every upstream call of the request has failed
AllCallsFailed(rq) ==
  /\ Accepted(rq) /\ ~rq.fullGameOk
  /\ rq.playerArray = <<>> /\ rq.lastOutcome = "failed"

\* C1: the events sent by GET /api/videos/all are in strictly ascending
\* order of eventId, hence pairwise distinct in eventId.
C1_OutputStrictlyAscending ==
  \A r \in Requests : StrictlyAscending(req[r].output)

C1_Witness ==
  \E r \in Requests :
    /\ Served(req[r]) /\ Len(req[r].output) >= 2
    /\ ~StrictlyAscending(req[r].allEvents)

\* C2 as stated: an eventId returned by a full-game call and by a fan-out
\* call has exactly one entry in the output, the first full-game one.
C2_Original ==
  \A r \in Requests :
    Served(req[r]) =>
      \A id \in Ids(FullGameEvents(req[r])) \cap req[r].clutchReturned :
        /\ CountId(req[r].output, id) = 1
        /\ FirstWithId(req[r].output, id) = FirstWithId(FullGameEvents(req[r]), id)

\* C2 amended: a non-zero eventId returned by a full-game call and by a
\* fan-out call has exactly one entry in the output, the first full-game
\* one; the id 0 has none.
C2_FullGameCopyWins ==
  \A r \in Requests :
    Served(req[r]) =>
      /\ CountId(req[r].output, 0) = 0
      /\ \A id \in (Ids(FullGameEvents(req[r])) \cap req[r].clutchReturned) \ {0} :
           /\ CountId(req[r].output, id) = 1
           /\ FirstWithId(req[r].output, id) = FirstWithId(FullGameEvents(req[r]), id)

C2_Witness ==
  \E r \in Requests :
    /\ Served(req[r])
    /\ \E id \in Ids(FullGameEvents(req[r])) \cap Ids(req[r].allClutchEvents) :
         /\ FirstWithId(req[r].allClutchEvents, id) # FirstWithId(FullGameEvents(req[r]), id)
         /\ FirstWithId(req[r].output, id) = FirstWithId(FullGameEvents(req[r]), id)

\* C3: a fan-out event is retained only if its eventId is in clutchEventIds,
\* so an event of the output that no full-game call returned has its
\* eventId in clutchEventIds.
C3_ClutchFilter ==
  \A r \in Requests :
    /\ Ids(req[r].allClutchEvents) \subseteq req[r].clutchEventIds
    /\ \A k \in 1..Len(req[r].output) :
         req[r].output[k] \notin SeqToSet(FullGameEvents(req[r]))
           => req[r].output[k].eventId \in req[r].clutchEventIds

C3_Witness ==
  \E r \in Requests :
    /\ Served(req[r])
    /\ req[r].clutchReturned \ req[r].clutchEventIds # {}
    /\ \E k \in 1..Len(req[r].output) :
         req[r].output[k] \notin SeqToSet(FullGameEvents(req[r]))

\* C4 as stated: the ids of the output are the ids the full-game calls
\* returned together with the ids the fan-out calls returned that are in
\* clutchEventIds.
C4_Original ==
  \A r \in Requests :
    Served(req[r]) =>
      Ids(req[r].output) =
        Ids(FullGameEvents(req[r])) \cup (req[r].clutchReturned \cap req[r].clutchEventIds)

MockEvent(eventId, contextMeasure, playerId) ==
  [eventId |-> eventId, description |-> playerId, contextMeasure |-> contextMeasure]

\* C4 amended: the ids of the output are the non-zero ids the full-game
\* calls returned together with the ids the fan-out calls returned that are
\* in clutchEventIds; the end-to-end scenario yields 10, 20, 30, 40 with 20
\* in its full-game version.
C4_OutputIds ==
  \A r \in Requests :
    Served(req[r]) =>
      /\ Ids(req[r].output) =
           (Ids(FullGameEvents(req[r])) \ {0})
             \cup (req[r].clutchReturned \cap req[r].clutchEventIds)
      /\ upstream = "mock" =>
           /\ req[r].clutchEventIds = {20, 40}
           /\ req[r].playerArray = <<99>>
           /\ req[r].output =
                << MockEvent(10, "FGA", DENI_PLAYER_ID),
                   MockEvent(20, "TOV", DENI_PLAYER_ID),
                   MockEvent(30, "AST", DENI_PLAYER_ID),
                   MockEvent(40, "FGA", 99) >>

C4_Witness ==
  \E r \in Requests :
    /\ Served(req[r]) /\ upstream = "mock"
    /\ 50 \in req[r].clutchReturned
    /\ Len(req[r].output) = 4

\* C5 as stated: without clutch data the output is the deduplicated, sorted
\* full-game list, and it is not empty when a full-game call succeeded.
C5_Original ==
  \A r \in Requests :
    (Accepted(req[r]) /\ (req[r].clutchEventIds = {} \/ req[r].playerArray = <<>>)) =>
      /\ req[r].status = 200
      /\ IsDedupSortOf(req[r].output, FullGameEvents(req[r]))
      /\ req[r].fullGameOk => req[r].output # <<>>

\* C5 amended: without clutch data (the play-by-play fetch failed, or it
\* found no clutch event id or no participant) the output is the
\* deduplicated, sorted full-game list, and it is not empty when a
\* full-game call returned an event with a non-zero id.
C5_FullGameOnly ==
  \A r \in Requests :
    (Accepted(req[r]) /\ (req[r].clutchEventIds = {} \/ req[r].playerArray = <<>>)) =>
      /\ req[r].status = 200
      /\ IsDedupSortOf(req[r].output, FullGameEvents(req[r]))
      /\ Ids(FullGameEvents(req[r])) \ {0} # {} => req[r].output # <<>>

\* the play-by-play fetch has failed and the full-game events are served
C5_Witness ==
  \E r \in Requests :
    /\ Served(req[r])
    /\ req[r].playerArray = <<>> /\ req[r].lastOutcome = "failed"
    /\ Len(req[r].output) >= 2

\* C6: a request with a gameId never ends in the 500 branch; when it ends
\* it has sent 200 with an event list, the empty one when every upstream
\* call has failed.
C6_NoErrorOutcome ==
  \A r \in Requests :
    /\ req[r].status # 500
    /\ Accepted(req[r]) => req[r].status = 200
    /\ AllCallsFailed(req[r]) => req[r].output = <<>>

C6_Witness ==
  \E r \in Requests :
    AllCallsFailed(req[r]) /\ req[r].status = 200 /\ req[r].calls = 8

VideoCallFails(r) ==
  /\ VideoPending(req[r]) /\ req[r].net # "idle"
  /\ req'[r].lastOutcome = "failed"

\* C7: a fetchPlayerVideos call that fails (status, network error, timeout,
\* unreadable payload) returns the empty list to its loop, which goes on.
C7_FetcherContainsErrors ==
  [][\A r \in Requests :
       VideoCallFails(r) =>
         /\ req'[r].status = 0
         /\ req[r].pc = "fg_wait" =>
              /\ req'[r].pc = "fg_delay"
              /\ req'[r].deniResults = Append(req[r].deniResults, <<>>)
         /\ req[r].pc = "clutch_wait" =>
              /\ req'[r].pc = "clutch_delay"
              /\ req'[r].playerResults = Append(req[r].playerResults, <<>>)]_vars

C7_Witness ==
  \E r \in Requests :
    /\ req[r].pc = "clutch_delay" /\ req[r].lastOutcome = "failed"
    /\ req[r].playerResults # <<>>
    /\ req[r].playerResults[Len(req[r].playerResults)] = <<>>

\* C8: every request that has been received completes.
C8_Completes == (req[1].pc # "idle") ~> (req[1].pc = "done")

\* the calls a request that has run to its end must have issued
CallsDue(rq) ==
  Len(contextMeasures) + 1 + Len(rq.playerArray) * Len(clutchMeasures)

\* C9: whatever calls fail, a request issues every call that is due (all
\* categories, the play-by-play fetch, every player and clutch category) and
\* its output retains what the other calls delivered.
C9_FailureIsLocal ==
  \A r \in Requests :
    Accepted(req[r]) =>
      /\ Len(req[r].deniResults) = Len(contextMeasures)
      /\ req[r].calls = CallsDue(req[r])
      /\ (Ids(FullGameEvents(req[r])) \ {0}) \subseteq Ids(req[r].output)
      /\ (req[r].clutchReturned \cap req[r].clutchEventIds) \subseteq Ids(req[r].output)

\* all full-game calls have failed, the later calls were issued and a
\* fan-out event is in the output
C9_Witness ==
  \E r \in Requests :
    /\ Served(req[r]) /\ ~req[r].fullGameOk
    /\ req[r].calls = CallsDue(req[r]) /\ req[r].playerArray # <<>>
    /\ req[r].output # <<>>

\* C10: a request has at most one upstream call in flight.
C10_OneCallInFlight ==
  \A r \in Requests : req[r].inflight <= 1

C10_Witness ==
  \E r \in Requests : req[r].inflight = 1 /\ req[r].calls >= 2

\* the orchestrator's phase: 1 FetchingFullGame, 2 FetchingClutchContext,
\* 3 FetchingClutchVideos, 4 Merging (inside the step that sends the
\* response), 5 Done
PhaseOf(rq) ==
  CASE rq.pc = "idle" -> 0
    [] rq.pc \in {"fg_wait", "fg_delay"} -> 1
    [] rq.pc = "pbp_wait" -> 2
    [] rq.pc \in {"clutch_wait", "clutch_delay"} -> 3
    [] OTHER -> 5

\* C11: the phases advance only forward; the play-by-play fetch is issued
\* after all 7 full-game calls have returned, a fan-out call only after the
\* play-by-play fetch has returned, and the merged list is sent only after
\* the last call that is due.
C11_PhasesForward ==
  /\ [][\A r \in Requests : PhaseOf(req'[r]) >= PhaseOf(req[r])]_vars
  /\ [](\A r \in Requests :
          /\ PhaseOf(req[r]) = 1 =>
                /\ req[r].calls = req[r].measureIdx
                /\ req[r].calls <= Len(contextMeasures)
          /\ PhaseOf(req[r]) = 2 =>
                /\ Len(req[r].deniResults) = Len(contextMeasures)
                /\ req[r].calls = Len(contextMeasures) + 1
          /\ PhaseOf(req[r]) = 3 =>
                /\ Len(req[r].deniResults) = Len(contextMeasures)
                /\ req[r].calls > Len(contextMeasures) + 1
                /\ req[r].calls <= CallsDue(req[r])
          /\ req[r].status = 200 =>
                /\ PhaseOf(req[r]) = 5
                /\ req[r].inflight = 0
                /\ req[r].calls = CallsDue(req[r]))

\* a request has gone through the four phases
C11_Witness ==
  \E r \in Requests :
    /\ Served(req[r]) /\ req[r].playerArray # <<>>
    /\ req[r].calls = CallsDue(req[r]) /\ req[r].output # <<>>

\* C12: when the play-by-play fetch yields no participant, no fan-out call
\* is issued (the 7 full-game calls and the play-by-play fetch are all the
\* calls) and the output is the deduplicated, sorted full-game list.
C12_NoParticipants ==
  \A r \in Requests :
    /\ PhaseOf(req[r]) = 3 => req[r].playerArray # <<>>
    /\ (Accepted(req[r]) /\ req[r].playerArray = <<>>) =>
         /\ req[r].calls = Len(contextMeasures) + 1
         /\ req[r].clutchReturned = {}
         /\ req[r].status = 200
         /\ IsDedupSortOf(req[r].output, FullGameEvents(req[r]))

\* the play-by-play log has clutch actions of the tracked player only
C12_Witness ==
  \E r \in Requests :
    /\ Served(req[r]) /\ req[r].lastOutcome = "ok"
    /\ req[r].playerArray = <<>> /\ req[r].clutchEventIds # {}
    /\ req[r].output # <<>>

Evaluated(fn) == eval.fn = fn /\ eval.done

\* C13: an action is clutch exactly when its period is 5 or more, or its
\* period is 4 with at most 5 minutes remaining: isClutch(5, any) and
\* isClutch(4, 5) are true, isClutch(4, 6) and isClutch(3, 0) are false.
C13_Classifier ==
  Evaluated("isClutch") =>
    LET p == eval.arg.period
        m == eval.arg.minutes
    IN  /\ eval.result = (p >= 5 \/ (p = 4 /\ m <= 5))
        /\ p = 5 => eval.result = TRUE
        /\ (p = 4 /\ m = 5) => eval.result = TRUE
        /\ (p = 4 /\ m = 6) => eval.result = FALSE
        /\ (p = 3 /\ m = 0) => eval.result = FALSE

\* period 4 with exactly 5 minutes on the clock has been classified
C13_Witness ==
  /\ Evaluated("isClutch") /\ eval.arg.period = 4 /\ eval.arg.minutes = 5
  /\ eval.arg.clock = Clock0500 /\ eval.result = TRUE

RECURSIVE Decimal(_)
\* the number a sequence of digits writes
Decimal(digits) ==
  IF digits = <<>> THEN 0
  ELSE 10 * Decimal(SubSeq(digits, 1, Len(digits) - 1))
         + DigitValue(digits[Len(digits)])

\* clock has "PT", k digits and "M" from index i on
FormAt(clock, i, k) ==
  /\ k >= 1 /\ i + 2 + k <= Len(clock)
  /\ clock[i] = "P" /\ clock[i + 1] = "T"
  /\ \A j \in (i + 2)..(i + 1 + k) : IsDigit(clock[j])
  /\ clock[i + 2 + k] = "M"

FormsIn(clock) ==
  {f \in (1..Len(clock)) \X (1..Len(clock)) : FormAt(clock, f[1], f[2])}

\* the minutes written by the form that starts first among forms
FormMinutes(clock, forms) ==
  LET f == CHOOSE g \in forms : \A h \in forms : g[1] <= h[1]
  IN  Decimal(SubSeq(clock, f[1] + 2, f[1] + 1 + f[2]))

\* C14 as stated: the parser returns m for a clock that is PT{m}M followed
\* by anything, and 0 for every other clock.
C14_Original ==
  Evaluated("minutes") =>
    LET forms == {f \in FormsIn(eval.arg) : f[1] = 1}
    IN  eval.result = IF forms = {} THEN 0 ELSE FormMinutes(eval.arg, forms)

\* C14 amended: the parser returns m for a clock that contains PT{m}M, taken
\* at its first occurrence wherever that starts, and 0 for a clock that
\* contains none (the empty clock among them).
C14_ClockParser ==
  Evaluated("minutes") =>
    LET forms == FormsIn(eval.arg)
    IN  eval.result = IF forms = {} THEN 0 ELSE FormMinutes(eval.arg, forms)

\* a clock with a character before PT{m}M has been parsed to m
C14_Witness ==
  /\ Evaluated("minutes") /\ eval.result = 5
  /\ FormsIn(eval.arg) # {} /\ \A f \in FormsIn(eval.arg) : f[1] # 1

\* C15: the tracked player is never in playerArray, and every fan-out call
\* is a query for another player.
C15_TrackedPlayerExcluded ==
  \A r \in Requests :
    /\ DENI_PLAYER_ID \notin SeqToSet(req[r].playerArray)
    /\ PhaseOf(req[r]) = 3 =>
         /\ CallArgs(req[r]).playerId # DENI_PLAYER_ID
         /\ CallArgs(req[r]).teamId = WILDCARD_TEAM

\* the log of the end-to-end scenario has the tracked player's clutch action
\* 20 and player 99's clutch action 40: the fan-out queries 99 alone
C15_Witness ==
  \E r \in Requests :
    /\ upstream = "mock" /\ req[r].pc = "clutch_wait"
    /\ 20 \in req[r].clutchEventIds
    /\ req[r].playerArray = <<99>>

\* the first of a, b, c that is present and not "", else c
FirstUrl(a, b, c) ==
  IF a \notin {None, Some("")} THEN a
  ELSE IF b \notin {None, Some("")} THEN b ELSE c

\* event i of events is item i of the playlist with the video fields of
\* asset i, or with no video field when there is no asset i
ZippedAt(events, i, playlist, videoUrls) ==
  /\ events[i].eventId = playlist[i].ei
  /\ events[i].description = playlist[i].dsc
  /\ IF i <= Len(videoUrls)
       THEN /\ events[i].videoUrl =
                 FirstUrl(videoUrls[i].lurl, videoUrls[i].murl, videoUrls[i].surl)
            /\ events[i].thumbnailUrl = videoUrls[i].lth
            /\ events[i].videoDuration = videoUrls[i].ldur
       ELSE /\ events[i].videoUrl = None
            /\ events[i].thumbnailUrl = None
            /\ events[i].videoDuration = None

ParticipantsFound(rq) ==
  LET answer == feed[rq.gameId].pbp
  IN  IF answer.kind # "ok" THEN {}
      ELSE {answer.actions[i].personId : i \in
              {k \in 1..Len(answer.actions) : IsClutchAction(answer.actions[k])}}
             \ {0, DENI_PLAYER_ID}

\* C16: the calls of a request are the 7 full-game calls in the order FGA,
\* AST, TOV, REB, BLK, STL, PF, then the play-by-play call, then 3 calls
\* (FGA, AST, TOV) for each of the first min(P, 8) participants; a request
\* that has ended has issued 7 + 1 + 3 * min(P, 8) calls, never more than 32.
C16_CallCount ==
  \A r \in Requests :
    /\ req[r].calls <= 32
    /\ PhaseOf(req[r]) = 1 => req[r].calls = req[r].measureIdx
    /\ req[r].pc = "fg_wait" =>
         /\ CallArgs(req[r]).playerId = DENI_PLAYER_ID
         /\ CallArgs(req[r]).contextMeasure =
              <<"FGA", "AST", "TOV", "REB", "BLK", "STL", "PF">>[req[r].calls]
    /\ PhaseOf(req[r]) = 2 => req[r].calls = 7 + 1
    /\ PhaseOf(req[r]) = 3 =>
         req[r].calls = 7 + 1 + 3 * (req[r].playerIdx - 1) + req[r].measureIdx
    /\ req[r].pc = "clutch_wait" =>
         CallArgs(req[r]).contextMeasure =
              <<"FGA", "AST", "TOV">>[req[r].measureIdx]
    /\ Accepted(req[r]) =>
         req[r].calls = 7 + 1 + 3 * Min(Cardinality(ParticipantsFound(req[r])), 8)

\* ten participants found, eight queried: 32 calls
C16_Witness ==
  \E r \in Requests :
    /\ Served(req[r]) /\ Cardinality(ParticipantsFound(req[r])) = 10
    /\ Len(req[r].playerArray) = 8 /\ req[r].calls = 32

\* C18: two runs of the handler for the same game against the same
\* upstream answers send the same list, element by element, having merged
\* the same events.
C18_Deterministic ==
  \A r1, r2 \in Requests :
    (Served(req[r1]) /\ Served(req[r2]) /\ req[r1].gameId = req[r2].gameId) =>
      /\ req[r1].output = req[r2].output
      /\ req[r1].allEvents = req[r2].allEvents

\* both runs have merged full-game and fan-out events
C18_Witness ==
  /\ Served(req[1]) /\ Served(req[2]) /\ req[1].gameId = req[2].gameId
  /\ Len(req[1].output) >= 2 /\ req[1].allClutchEvents # <<>>
  /\ req[2].output = req[1].output

\* the step a request takes next when its upstream answers by the script
StepAlone(rq) ==
  CASE VideoPending(rq) /\ rq.net = "headers" -> AfterVideoAnswer(rq)
    [] VideoPending(rq) /\ rq.net = "body" -> AfterVideoBody(rq, FALSE)
    [] rq.pc = "fg_delay" -> AfterFullGameDelay(rq)
    [] rq.pc = "pbp_wait" /\ rq.net = "headers" -> AfterPbpAnswer(rq)
    [] rq.pc = "pbp_wait" /\ rq.net = "body" -> AfterPbpBody(rq)
    [] rq.pc = "clutch_delay" -> AfterClutchDelay(rq)

RECURSIVE RunAlone(_)
\* a request run from rq to its end with no other request around
RunAlone(rq) == IF rq.pc = "done" THEN rq ELSE RunAlone(StepAlone(rq))

AloneOutput(gameId) == RunAlone(ReceiveRequest(NewRequest, gameId)).output

\* the events of the sequence are all of the game
OfGame(events, gameId) ==
  \A k \in 1..Len(events) : events[k].description[1] = gameId

\* C19: whatever the interleaving of two requests, each sends the list it
\* sends when it runs alone against the same answers, and the events it
\* holds and sends are all of its own game.
C19_Independent ==
  \A r \in Requests :
    /\ OfGame(req[r].allEvents, req[r].gameId)
    /\ OfGame(req[r].allClutchEvents, req[r].gameId)
    /\ Served(req[r]) =>
         /\ OfGame(req[r].output, req[r].gameId)
         /\ req[r].output = AloneOutput(req[r].gameId)

\* two requests for different games, both served with events
C19_Witness ==
  /\ Served(req[1]) /\ Served(req[2]) /\ req[1].gameId # req[2].gameId
  /\ req[1].output # <<>> /\ req[2].output # <<>>
  /\ req[1].allClutchEvents # <<>>
  /\ Ids(req[1].output) # Ids(req[2].output)

VideoCallReturns(r) ==
  VideoPending(req[r]) /\ req'[r].pc # req[r].pc

VideoCallIssued(r) ==
  VideoPending(req'[r]) /\ req'[r].calls = req[r].calls + 1

\* C20: a video call that returns is followed by the pause of its loop
\* (500 ms in the full-game loop, 100 ms in the fan-out loop) and by no call
\* in the same step; a video call is issued when the request starts, when a
\* pause is over, or when the play-by-play fetch, itself issued after a
\* pause, has returned.
C20_DelayBetweenCalls ==
  [][\A r \in Requests :
       /\ VideoCallReturns(r) =>
            /\ req'[r].calls = req[r].calls
            /\ req[r].pc = "fg_wait" => req'[r].pc = "fg_delay"
            /\ req[r].pc = "clutch_wait" => req'[r].pc = "clutch_delay"
       /\ VideoCallIssued(r) =>
            req[r].pc \in {"idle", "fg_delay", "pbp_wait", "clutch_delay"}
       /\ (req'[r].pc = "pbp_wait" /\ req[r].pc # "pbp_wait") =>
            req[r].pc = "fg_delay"]_vars

\* a fan-out call issued after the pause that followed the previous one
C20_Witness ==
  \E r \in Requests :
    /\ req[r].pc = "clutch_wait" /\ req[r].measureIdx = 2
    /\ req[r].net = "headers" /\ Len(req[r].playerResults) = 1

\* the two digits that end the decimal writing of n
TwoDigits(n) ==
  <<DigitChars[((n \div 10) % 10) + 1], DigitChars[(n % 10) + 1]>>

\* season is the decimal writing of first, "-", and the two digits of second
IsSeason(season, first, second) ==
  LET n == Len(season)
  IN  /\ n >= 4
      /\ season[n - 2] = "-"
      /\ \A i \in 1..(n - 3) : IsDigit(season[i])
      /\ season[1] # "0"
      /\ Decimal(SubSeq(season, 1, n - 3)) = first
      /\ SubSeq(season, n - 1, n) = TwoDigits(second)

\* C21: in October or later of year Y the season string is Y, "-" and the
\* last two digits of Y + 1; in an earlier month it is Y - 1, "-" and the
\* last two digits of Y.
C21_SeasonString ==
  Evaluated("getCurrentSeason") =>
    LET Y == eval.arg.year
        month == eval.arg.monthIndex + 1
    IN  IF month >= 10 THEN IsSeason(eval.result, Y, Y + 1)
        ELSE IsSeason(eval.result, Y - 1, Y)

\* the season of October 2099 has been computed: it ends in "00"
C21_Witness ==
  /\ Evaluated("getCurrentSeason")
  /\ eval.arg.year = 2099 /\ eval.arg.monthIndex = 9
  /\ eval.result = <<"2", "0", "9", "9", "-", "0", "0">>

\* C22: a full-game video call asks for the tracked player within the
\* tracked team; a fan-out video call asks for a participant found in the
\* play-by-play log with the wildcard team; no call has the other's scope.
C22_TeamScope ==
  \A r \in Requests :
    /\ req[r].pc = "fg_wait" =>
         /\ CallArgs(req[r]).playerId = DENI_PLAYER_ID
         /\ CallArgs(req[r]).teamId = PORTLAND_TEAM_ID
         /\ CallArgs(req[r]).teamId # WILDCARD_TEAM
    /\ req[r].pc = "clutch_wait" =>
         /\ CallArgs(req[r]).playerId \in ParticipantsFound(req[r])
         /\ CallArgs(req[r]).teamId = WILDCARD_TEAM
         /\ CallArgs(req[r]).teamId # PORTLAND_TEAM_ID

\* one request is in a full-game call while the other queries participant 7
C22_Witness ==
  \E r, q \in Requests :
    /\ req[r].pc = "fg_wait" /\ req[r].net # "idle"
    /\ req[q].pc = "clutch_wait" /\ req[q].net # "idle"
    /\ CallArgs(req[q]).playerId = 7

\* error is the timeout error for a timeout of timeoutMs milliseconds
IsTimeoutError(error, timeoutMs) ==
  LET text == error.message
      n == Len(text)
  IN  /\ error.name = "Error"
      /\ n >= 3
      /\ text[1] = "Request timed out after "
      /\ text[n] = "ms"
      /\ \A i \in 2..(n - 1) : IsDigit(text[i])
      /\ Decimal(SubSeq(text, 2, n - 1)) = timeoutMs

\* C23: when the timeout elapses before the upstream responds,
\* fetchWithTimeout aborts the call and throws the error "Request timed out
\* after N ms" for its timeout N; any other transport error is thrown on
\* unchanged and is not a timeout error; either way the timer is cleared.
C23_TimeoutError ==
  Evaluated("fetchWithTimeout") =>
    LET fate == eval.arg.fate
        N == eval.arg.timeoutMs
    IN  /\ eval.result.timer = FALSE
        /\ fate.kind = "silent" =>
             /\ eval.result.aborted
             /\ eval.result.threw # None
             /\ IsTimeoutError(eval.result.threw[1], N)
        /\ fate.kind = "error" =>
             /\ eval.result.threw = fate.error
             /\ \A t \in TimeoutsMs : ~IsTimeoutError(eval.result.threw[1], t)

\* a video call has timed out after 15000 ms
C23_Witness ==
  /\ Evaluated("fetchWithTimeout")
  /\ eval.arg.fate.kind = "silent" /\ eval.arg.timeoutMs = VIDEO_TIMEOUT_MS
  /\ eval.result.threw =
       Some([name |-> "Error",
             message |-> <<"Request timed out after ",
                           "1", "5", "0", "0", "0", "ms">>])

\* the play is in the clutch window: overtime, or the fourth period with at
\* most 5:00 on the clock
InClutchWindow(play) ==
  \/ play.period >= 5
  \/ play.period = 4 /\ 60 * play.minutes + play.seconds <= 300

\* C24: a fourth-period action is in the clutch event-id set only when its
\* clock shows at most 5:00; one with more than 5:00 on the clock, such as
\* 5:30, is not in the set, and its actor is in the participant list only
\* if some action of the clutch window has the same actor.
C24_ClutchWindow ==
  Evaluated("clutchContext") =>
    \A i \in 1..Len(eval.arg) :
      (eval.arg[i].period = 4 /\ ~InClutchWindow(eval.arg[i])) =>
        /\ i \notin eval.result.clutchEventIds
        /\ eval.arg[i].personId \in SeqToSet(eval.result.playerArray) =>
             \E j \in 1..Len(eval.arg) :
               /\ InClutchWindow(eval.arg[j])
               /\ eval.arg[j].personId = eval.arg[i].personId

\* C25: a request without a gameId is answered 400 before any upstream call:
\* it issues no video call and no play-by-play call, and 400 is the answer
\* to such requests only.
C25_MissingGameId ==
  \A r \in Requests :
    /\ (req[r].pc # "idle" /\ req[r].gameId = "") =>
         /\ req[r].pc = "done" /\ req[r].status = 400
         /\ req[r].calls = 0 /\ req[r].inflight = 0 /\ req[r].net = "idle"
         /\ ~req[r].timer /\ req[r].output = <<>>
    /\ req[r].status = 400 => req[r].gameId = ""

\* a request without gameId has been rejected
C25_Witness ==
  \E r \in Requests :
    /\ req[r].pc = "done" /\ req[r].gameId = ""
    /\ req[r].status = 400 /\ req[r].calls = 0

\* no call of getAllVideoEvents is in flight
NoRequestInFlight == \A g \in ScriptGames : ui.requests[g] = 0

\* C26: after events has changed, currentIndex comes to 0 whatever the user
\* and the video do around the change: once the timer of the reset has
\* fired, every update is rendered and no request is in flight, a render
\* since the change has had currentIndex 0.
C26_ResetToFirst ==
  (ui.page = "games" /\ ~ui.timer /\ ui.queue = <<>> /\ NoRequestInFlight) =>
    ~ui.resetDue

\* C27: an event whose eventId is 0 or missing is never in the output, and
\* an action whose actionNumber is 0 or missing never puts an id into the
\* clutch event-id set; such events are dropped, not merged into one: the
\* output has one event for each non-zero id collected and no other.
C27_FalsyIdsDropped ==
  \A r \in Requests :
    /\ 0 \notin req[r].clutchEventIds
    /\ Served(req[r]) =>
         /\ 0 \notin Ids(req[r].output)
         /\ Len(req[r].output) = Cardinality(Ids(req[r].allEvents) \ {0})

\* a request has collected an event without id beside one with an id, and
\* its log had clutch actions, all without actionNumber: the output has the
\* one event and the clutch event-id set is empty
C27_Witness ==
  \E r \in Requests :
    /\ Served(req[r])
    /\ 0 \in Ids(req[r].allEvents) /\ Len(req[r].output) = 1
    /\ req[r].playerArray # <<>> /\ req[r].clutchEventIds = {}

\* the index in the log of the first clutch action of player a
FirstActionOf(actions, a) ==
  CHOOSE i \in 1..Len(actions) :
    /\ IsClutchAction(actions[i]) /\ actions[i].personId = a
    /\ \A j \in 1..(i - 1) :
         ~(IsClutchAction(actions[j]) /\ actions[j].personId = a)

\* the place of participant a among the participants, by first appearance:
\* one more than the number of other players with a clutch action before
\* the first of a
RankOf(actions, a) ==
  1 + Cardinality({actions[j].personId : j \in
                     {i \in 1..(FirstActionOf(actions, a) - 1) :
                        /\ IsClutchAction(actions[i])
                        /\ actions[i].personId \notin {0, DENI_PLAYER_ID}}})

\* C28: the players fanned out are the first 8 distinct actors other than
\* the tracked player, in the order of their first clutch action in the log
\* (all of them when there are 8 or fewer), and the calls are made in that
\* order: the k-th group of three calls is for the k-th of them.
C28_FirstEight ==
  \A r \in Requests :
    PhaseOf(req[r]) = 3 =>
      LET actions == feed[req[r].gameId].pbp.actions
          found == ParticipantsFound(req[r])
          playerId == req[r].playerArray[req[r].playerIdx]
      IN  /\ Len(req[r].playerArray) = Min(Cardinality(found), 8)
          /\ playerId \in found
          /\ RankOf(actions, playerId) = req[r].playerIdx
          /\ req[r].pc = "clutch_wait" =>
               /\ CallArgs(req[r]).playerId = playerId
               /\ req[r].calls =
                    7 + 1 + 3 * (RankOf(actions, playerId) - 1) + req[r].measureIdx

\* of ten participants the eighth by first appearance, 103, is being queried
\* last; 110 and 109, who act twice, were first and second
C28_Witness ==
  \E r \in Requests :
    /\ req[r].pc = "clutch_wait"
    /\ Cardinality(ParticipantsFound(req[r])) = 10
    /\ req[r].playerArray = <<110, 109, 108, 107, 106, 105, 104, 103>>
    /\ CallArgs(req[r]).playerId = 103 /\ req[r].calls = 32

\* C29: while events is not empty, currentIndex is an index of it: at least
\* 0 and at most events.length - 1, after any sequence of prev, next, jumps,
\* video ends and replacements of the list.
C29_IndexInRange ==
  (ui.page = "games" /\ ui.events.length > 0) =>
    (0 <= ui.currentIndex /\ ui.currentIndex <= ui.events.length - 1)

\* C30: once no request is in flight the events shown are those returned
\* for the selected game, and loading stays set while a request is in flight.
C30_EventsOfSelectedGame ==
  ui.page = "games" =>
    /\ NoRequestInFlight => ui.events.gameId = ui.selectedGameId
    /\ ~NoRequestInFlight => ui.loading

====
